---------------------------- MODULE Spec2Model ----------------------------
(***************************************************************************)
(* Model of the two procedures of the repository:                          *)
(*   - src/run_quantize_inc.py : main, quantize_model, evaluate_accuracy   *)
(*   - src/utils/train.py      : train                                     *)
(* The third-party libraries (transformers, neural_compressor, torch,      *)
(* sklearn, the preprocessing collaborator) are the environment: whatever  *)
(* they decide (raise or return, which files a save writes, what a model   *)
(* predicts) is a nondeterministic choice.                                 *)
(***************************************************************************)
EXTENDS Integers, Sequences, FiniteSets

VARIABLES
    \* ---- run_quantize_inc.main ----
    qpc,            \* position of main
    savedExists,    \* os.path.exists(flags.saved_model_dir)
    savedModelDir,  \* files of flags.saved_model_dir: set of <<name, content>>
    outputDir,      \* files of flags.output_dir: set of <<name, content>>
    outputDir0,     \* files of flags.output_dir when main was entered
    savedSnapshot,  \* files of flags.output_dir right after quantized_model.save
    logs,           \* what main handed to logger.error, in order
    calls,          \* library calls main has made, in order
    dataExc,        \* exception raised inside the try block of main, or "none"
    exception,      \* exception that left main, or "none"
    quantized_model, \* value bound by quantization.fit: "unbound", "model", "None"
    \* ---- quantize_model.evaluate_accuracy ----
    epc,            \* position of evaluate_accuracy: "idle", "loop"
    labels,         \* label of each sample of the calibration dataset
    batch_size,     \* flags.batch_size of the calibration loader
    order,          \* order in which the shuffling loader serves the samples
    served,         \* number of samples the loader has served in this pass
    batches,        \* number of batches iterated in this invocation
    test_preds,     \* the accumulator test_preds
    test_labels,    \* the accumulator test_labels
    evalCount,      \* invocations of evaluate_accuracy that have returned
    accuracy,       \* value last returned, <<matches, total>>, or <<>>
    \* ---- train ----
    tpc,            \* position of train
    epochs,         \* the parameter epochs
    nTrainBatches,  \* len(train_dataloader)
    nValBatches,    \* len(val_dataloader)
    save_model_dir, \* whether flags.save_model_dir is set
    acc,            \* the tracking variable acc
    epoch,          \* the loop variable epoch (0 before the loop)
    batch,          \* training batches started in this epoch
    valBatch,       \* validation batches done in this epoch
    running_loss,   \* number of batch losses added to running_loss
    train_preds,    \* number of batches accumulated in train_preds/train_labels
    valCount,       \* len(test_preds) = len(test_labels) of train
    valCorrect,     \* positions where test_preds and test_labels of train agree
    testAcc,        \* testAcc, <<correct, total>>
    grads,          \* gradients held by the parameters: "stale", "zero", "computed"
    steps,          \* optimizer steps applied to the model so far
    batchOps,       \* what the mutation step has done for the current batch
    writer,         \* entries added to the SummaryWriter: <<tag, global_step>>
    checkpoint,     \* what save_model_dir holds: [epoch, steps], epoch 0 if nothing
    saves,          \* epochs in which the save step ran, in order
    valHistory,     \* testAcc of every finished validation pass, in order
    visited         \* epoch indices the loop has entered, in order

qvars == <<qpc, savedExists, savedModelDir, outputDir, outputDir0,
           savedSnapshot, logs, calls, dataExc, exception, quantized_model>>

evars == <<epc, labels, batch_size, order, served, batches, test_preds,
           test_labels, evalCount, accuracy>>

tvars == <<tpc, epochs, nTrainBatches, nValBatches, save_model_dir, acc, epoch,
           batch, valBatch, running_loss, train_preds, valCount, valCorrect,
           testAcc, grads, steps, batchOps, writer, checkpoint, saves,
           valHistory, visited>>

vars == <<qvars, evars, tvars>>

-----------------------------------------------------------------------------
(* Each procedure runs on its own: the state of the other two is at rest *)

IdleQ ==
    /\ qpc = "idle"
    /\ savedExists = FALSE
    /\ savedModelDir = {}
    /\ outputDir = {}
    /\ outputDir0 = {}
    /\ savedSnapshot = {}
    /\ logs = <<>>
    /\ calls = <<>>
    /\ dataExc = "none"
    /\ exception = "none"
    /\ quantized_model = "unbound"

IdleE ==
    /\ epc = "off"
    /\ labels = <<>>
    /\ batch_size = 0
    /\ order = <<>>
    /\ served = 0
    /\ batches = 0
    /\ test_preds = <<>>
    /\ test_labels = <<>>
    /\ evalCount = 0
    /\ accuracy = <<>>

IdleT ==
    /\ tpc = "off"
    /\ epochs = 0
    /\ nTrainBatches = 0
    /\ nValBatches = 0
    /\ save_model_dir = FALSE
    /\ acc = <<0, 1>>
    /\ epoch = 0
    /\ batch = 0
    /\ valBatch = 0
    /\ running_loss = 0
    /\ train_preds = 0
    /\ valCount = 0
    /\ valCorrect = 0
    /\ testAcc = <<0, 1>>
    /\ grads = "stale"
    /\ steps = 0
    /\ batchOps = <<>>
    /\ writer = <<>>
    /\ checkpoint = [epoch |-> 0, steps |-> 0]
    /\ saves = <<>>
    /\ valHistory = <<>>
    /\ visited = <<>>

-----------------------------------------------------------------------------
(* File names, as character sequences so that a glob pattern can be matched *)

ConfigJson == <<"c","o","n","f","i","g",".","j","s","o","n">>
VocabTxt == <<"v","o","c","a","b",".","t","x","t">>
PytorchModelBin == <<"p","y","t","o","r","c","h","_","m","o","d","e","l",".","b","i","n">>
ModelSafetensors == <<"m","o","d","e","l",".","s","a","f","e","t","e","n","s","o","r","s">>
BestModelPt == <<"b","e","s","t","_","m","o","d","e","l",".","p","t">>
BestModelWeightsPt == <<"b","e","s","t","_","m","o","d","e","l","_","w","e","i","g","h","t","s",".","p","t">>
BestConfigureYaml == <<"b","e","s","t","_","c","o","n","f","i","g","u","r","e",".","y","a","m","l">>
DeployYaml == <<"d","e","p","l","o","y",".","y","a","m","l">>

\* the literal part of the pattern "*.bin*" of shutil.ignore_patterns
DotBin == <<".","b","i","n">>

\* fnmatch(name, "*.bin*"): the name holds ".bin" somewhere
FnMatchBin(name) ==
    \E i \in 1..(Len(name) - Len(DotBin) + 1) :
        SubSeq(name, i, i + Len(DotBin) - 1) = DotBin

\* shutil.ignore_patterns("*.bin*") applied to the names of a directory
IgnorePatterns(names) == {n \in names : FnMatchBin(n)}

Names(dir) == {f[1] : f \in dir}

\* writing a file creates it or replaces the file of that name
WriteFiles(dir, files) == {f \in dir : f[1] \notin Names(files)} \cup files

\* a copy that forgets the ignore argument
CopyTree_NoIgnore(src, dst) == WriteFiles(dst, src)

\* shutil.copytree(src, dst, ignore=..., dirs_exist_ok=True) on flat directories
CopyTree(src, dst) ==
    LET ignored == IgnorePatterns(Names(src))
        copied == {f \in src : f[1] \notin ignored}
    IN WriteFiles(dst, copied)

-----------------------------------------------------------------------------
(* The environment of main *)

\* a saved model as save_pretrained leaves it, weights in either format
SavedModelLayouts ==
    { {<<ConfigJson, "config">>, <<VocabTxt, "vocab">>,
       <<PytorchModelBin, "float_weights">>},
      {<<ConfigJson, "config">>, <<VocabTxt, "vocab">>,
       <<ModelSafetensors, "float_weights">>} }

\* what flags.output_dir may hold before the run
InitialOutputDirs ==
    { {}, {<<BestModelPt, "stale">>}, {<<ConfigJson, "stale">>} }

\* the file sets quantized_model.save may write (the library's naming)
SaveLayouts ==
    { {<<BestModelPt, "quantized_weights">>},
      {<<BestModelWeightsPt, "quantized_weights">>,
       <<BestConfigureYaml, "quantized_config">>} }

\* what quantization.fit may leave in its workspace
WorkspaceLayouts == { {}, {<<DeployYaml, "workspace">>} }

\* exception classes the collaborators may raise
Exceptions == {"FileNotFoundError", "PermissionError", "ValueError"}

\* a handler that catches the whole OSError family
IsFileNotFoundError_OSError(exc) == exc \in {"FileNotFoundError", "PermissionError"}

\* `except FileNotFoundError`
IsFileNotFoundError(exc) == exc = "FileNotFoundError"

ModelNotFoundLog == "Saved model %s not found!"
DownloadDataLog == "Please follow instructions to download data."

-----------------------------------------------------------------------------
(* run_quantize_inc.main *)

InitQ ==
    /\ qpc = "validate"
    /\ savedExists \in BOOLEAN
    /\ savedModelDir \in (IF savedExists THEN SavedModelLayouts ELSE {{}})
    /\ outputDir \in InitialOutputDirs
    /\ outputDir0 = outputDir
    /\ savedSnapshot = {}
    /\ logs = <<>>
    /\ calls = <<>>
    /\ dataExc = "none"
    /\ exception = "none"
    /\ quantized_model = "unbound"
    /\ IdleE
    /\ IdleT

\* the validation without its early return
ValidateFlags_NoReturn ==
    /\ qpc = "validate"
    /\ logs' = (IF ~savedExists THEN Append(logs, ModelNotFoundLog) ELSE logs)
    /\ qpc' = "load_tokenizer"
    /\ UNCHANGED <<savedExists, savedModelDir, outputDir, outputDir0,
                   savedSnapshot, calls, dataExc, exception, quantized_model>>
    /\ UNCHANGED <<evars, tvars>>

\* main, lines 95-101
ValidateFlags ==
    /\ qpc = "validate"
    /\ IF ~savedExists
         THEN /\ logs' = Append(logs, ModelNotFoundLog)
              /\ qpc' = "returned"
         ELSE /\ logs' = logs
              /\ qpc' = "load_tokenizer"
    /\ UNCHANGED <<savedExists, savedModelDir, outputDir, outputDir0,
                   savedSnapshot, calls, dataExc, exception, quantized_model>>
    /\ UNCHANGED <<evars, tvars>>

\* main, line 103
LoadTokenizer ==
    /\ qpc = "load_tokenizer"
    /\ \/ /\ calls' = Append(calls, "AutoTokenizer.from_pretrained")
          /\ qpc' = "load_dataset"
          /\ exception' = exception
       \/ \E exc \in Exceptions :
            /\ calls' = Append(calls, "AutoTokenizer.from_pretrained")
            /\ qpc' = "raised"
            /\ exception' = exc
    /\ UNCHANGED <<savedExists, savedModelDir, outputDir, outputDir0,
                   savedSnapshot, logs, dataExc, quantized_model>>
    /\ UNCHANGED <<evars, tvars>>

\* main, lines 105-116: read_and_preprocess_data and DataLoader inside try
LoadDataset ==
    /\ qpc = "load_dataset"
    /\ \/ /\ calls' = calls \o <<"read_and_preprocess_data", "DataLoader">>
          /\ qpc' = "load_model"
          /\ UNCHANGED <<logs, dataExc, exception>>
       \/ \E exc \in Exceptions :
          \E reached \in {<<"read_and_preprocess_data">>,
                          <<"read_and_preprocess_data", "DataLoader">>} :
            /\ calls' = calls \o reached
            /\ dataExc' = exc
            /\ IF IsFileNotFoundError(exc)
                 THEN /\ logs' = logs \o <<DownloadDataLog, exc>>
                      /\ qpc' = "returned"
                      /\ exception' = exception
                 ELSE /\ logs' = logs
                      /\ qpc' = "raised"
                      /\ exception' = exc
    /\ UNCHANGED <<savedExists, savedModelDir, outputDir, outputDir0,
                   savedSnapshot, quantized_model>>
    /\ UNCHANGED <<evars, tvars>>

\* main, line 118
LoadModel ==
    /\ qpc = "load_model"
    /\ \/ /\ calls' = Append(calls, "AutoModelForSequenceClassification.from_pretrained")
          /\ qpc' = "set_workspace"
          /\ exception' = exception
       \/ \E exc \in Exceptions :
            /\ calls' = Append(calls, "AutoModelForSequenceClassification.from_pretrained")
            /\ qpc' = "raised"
            /\ exception' = exc
    /\ UNCHANGED <<savedExists, savedModelDir, outputDir, outputDir0,
                   savedSnapshot, logs, dataExc, quantized_model>>
    /\ UNCHANGED <<evars, tvars>>

\* quantize_model, lines 76-79
SetWorkspace ==
    /\ qpc = "set_workspace"
    /\ calls' = Append(calls, "set_workspace")
    /\ qpc' = "fit"
    /\ UNCHANGED <<savedExists, savedModelDir, outputDir, outputDir0,
                   savedSnapshot, logs, dataExc, exception, quantized_model>>
    /\ UNCHANGED <<evars, tvars>>

\* quantize_model, lines 81-85: the fit returns a model, or None when no
\* configuration met the accuracy goal, or raises
Fit ==
    /\ qpc = "fit"
    /\ calls' = Append(calls, "quantization.fit")
    /\ \/ \E ws \in WorkspaceLayouts : \E res \in {"model", "None"} :
            /\ outputDir' = WriteFiles(outputDir, ws)
            /\ quantized_model' = res
            /\ qpc' = "save"
            /\ exception' = exception
       \/ \E exc \in Exceptions :
            /\ qpc' = "raised"
            /\ exception' = exc
            /\ UNCHANGED <<outputDir, quantized_model>>
    /\ UNCHANGED <<savedExists, savedModelDir, outputDir0, savedSnapshot,
                   logs, dataExc>>
    /\ UNCHANGED <<evars, tvars>>

\* main, line 121
Save ==
    /\ qpc = "save"
    /\ IF quantized_model = "None"
         THEN /\ qpc' = "raised"
              /\ exception' = "AttributeError"
              /\ UNCHANGED <<outputDir, savedSnapshot, calls>>
         ELSE \E written \in SaveLayouts :
              /\ outputDir' = WriteFiles(outputDir, written)
              /\ savedSnapshot' = outputDir'
              /\ calls' = Append(calls, "save")
              /\ qpc' = "copy"
              /\ exception' = exception
    /\ UNCHANGED <<savedExists, savedModelDir, outputDir0, logs, dataExc,
                   quantized_model>>
    /\ UNCHANGED <<evars, tvars>>

\* main, lines 123-130
CopySavedModel ==
    /\ qpc = "copy"
    /\ IF BestModelPt \in Names(outputDir)
         THEN /\ outputDir' = CopyTree(savedModelDir, outputDir)
              /\ calls' = Append(calls, "shutil.copytree")
         ELSE UNCHANGED <<outputDir, calls>>
    /\ qpc' = "returned"
    /\ UNCHANGED <<savedExists, savedModelDir, outputDir0, savedSnapshot,
                   logs, dataExc, exception, quantized_model>>
    /\ UNCHANGED <<evars, tvars>>

NextQ ==
    \/ ValidateFlags
    \/ LoadTokenizer
    \/ LoadDataset
    \/ LoadModel
    \/ SetWorkspace
    \/ Fit
    \/ Save
    \/ CopySavedModel

SpecQ == InitQ /\ [][NextQ]_vars

-----------------------------------------------------------------------------
(* quantize_model.evaluate_accuracy, the eval_func handed to quantization.fit *)

MaxSamples == 3     \* largest calibration dataset
MaxBatchSize == 2   \* largest flags.batch_size
MaxEvals == 2       \* invocations of the eval_func by one fit

Classes == {0, 1}

Min(a, b) == IF a < b THEN a ELSE b

Permutations(n) ==
    {p \in [1..n -> 1..n] : \A i, j \in 1..n : i # j => p[i] # p[j]}

\* sklearn accuracy_score(y_true, y_pred): agreeing positions over all
\* positions, kept as the fraction <<agreeing, all>>
accuracy_score(y_true, y_pred) ==
    <<Cardinality({i \in 1..Len(y_true) : y_true[i] = y_pred[i]}), Len(y_true)>>

InitE ==
    /\ epc = "idle"
    /\ \E n \in 1..MaxSamples : labels \in [1..n -> Classes]
    /\ batch_size \in 1..MaxBatchSize
    /\ order = <<>>
    /\ served = 0
    /\ batches = 0
    /\ test_preds = <<>>
    /\ test_labels = <<>>
    /\ evalCount = 0
    /\ accuracy = <<>>
    /\ IdleQ
    /\ IdleT

\* accumulators that live outside the function and are never emptied
EnterEvaluate_NoReset ==
    /\ epc = "idle"
    /\ evalCount < MaxEvals
    /\ epc' = "loop"
    /\ order' \in Permutations(Len(labels))
    /\ served' = 0
    /\ batches' = 0
    /\ UNCHANGED <<test_preds, test_labels>>
    /\ UNCHANGED <<labels, batch_size, evalCount, accuracy>>
    /\ UNCHANGED <<qvars, tvars>>

\* lines 60-63: fit invokes the eval_func; the accumulators are created and
\* the shuffling loader starts a new pass in an order of its choosing
EnterEvaluate ==
    /\ epc = "idle"
    /\ evalCount < MaxEvals
    /\ epc' = "loop"
    /\ order' \in Permutations(Len(labels))
    /\ served' = 0
    /\ batches' = 0
    /\ test_preds' = <<>>
    /\ test_labels' = <<>>
    /\ UNCHANGED <<labels, batch_size, evalCount, accuracy>>
    /\ UNCHANGED <<qvars, tvars>>

\* lines 63-72: one batch of the loader; model_q predicts a class per sample
EvaluateBatch ==
    /\ epc = "loop"
    /\ served < Len(labels)
    /\ LET n == Min(batch_size, Len(labels) - served)
       IN \E pred \in [1..n -> Classes] :
            /\ test_preds' = test_preds \o pred
            /\ test_labels' = test_labels \o [k \in 1..n |-> labels[order[served + k]]]
            /\ served' = served + n
    /\ batches' = batches + 1
    /\ UNCHANGED <<epc, labels, batch_size, order, evalCount, accuracy>>
    /\ UNCHANGED <<qvars, tvars>>

\* line 74: the loader is exhausted
ReturnAccuracy ==
    /\ epc = "loop"
    /\ served = Len(labels)
    /\ accuracy' = accuracy_score(test_preds, test_labels)
    /\ evalCount' = evalCount + 1
    /\ epc' = "idle"
    /\ UNCHANGED <<labels, batch_size, order, served, batches, test_preds,
                   test_labels>>
    /\ UNCHANGED <<qvars, tvars>>

NextE ==
    \/ EnterEvaluate
    \/ EvaluateBatch
    \/ ReturnAccuracy

SpecE == InitE /\ [][NextE]_vars

-----------------------------------------------------------------------------
(* utils.train.train *)

MaxEpochs == 2          \* largest value of the parameter epochs
MaxTrainBatches == 2    \* longest train_dataloader
MaxValBatches == 2      \* longest val_dataloader
ValBatchSize == 10      \* samples in a validation batch

\* numbers of correct predictions the model may reach on a validation batch
BatchCorrect == {6, 8, 9, 10}

\* fractions <<numerator, denominator>> with positive denominators stand for
\* the floats the code compares; the quotients at hand and the literals 0.8
\* and 0.95 are correctly rounded, so the order of the floats is the order
\* of the fractions
Less(x, y) == x[1] * y[2] < y[1] * x[2]

\* line 55
InitialAcc == <<0, 1>>

\* the literals of line 137
AccLow == <<8, 10>>
AccHigh == <<95, 100>>

\* line 137: (testAcc > acc) and (testAcc > 0.8) and (testAcc < 0.95)
Qualifies(t, a) == Less(a, t) /\ Less(AccLow, t) /\ Less(t, AccHigh)

InitT ==
    /\ tpc = "for_epoch"
    /\ epochs \in 0..MaxEpochs
    /\ nTrainBatches \in 1..MaxTrainBatches
    /\ nValBatches \in 1..MaxValBatches
    /\ save_model_dir \in BOOLEAN
    /\ acc = InitialAcc
    /\ epoch = 0
    /\ batch = 0
    /\ valBatch = 0
    /\ running_loss = 0
    /\ train_preds = 0
    /\ valCount = 0
    /\ valCorrect = 0
    /\ testAcc = <<0, 1>>
    /\ grads = "stale"
    /\ steps = 0
    /\ batchOps = <<>>
    /\ writer = <<>>
    /\ checkpoint = [epoch |-> 0, steps |-> 0]
    /\ saves = <<>>
    /\ valHistory = <<>>
    /\ visited = <<>>
    /\ IdleQ
    /\ IdleE

\* lines 59-62: for epoch in range(1, epochs + 1), and line 147 after it
ForEpoch ==
    /\ tpc = "for_epoch"
    /\ IF epoch < epochs
         THEN /\ epoch' = epoch + 1
              /\ visited' = Append(visited, epoch + 1)
              /\ running_loss' = 0
              /\ train_preds' = 0
              /\ batch' = 0
              /\ tpc' = "for_batch"
         ELSE /\ tpc' = "close"
              /\ UNCHANGED <<epoch, visited, running_loss, train_preds, batch>>
    /\ UNCHANGED <<epochs, nTrainBatches, nValBatches, save_model_dir, acc,
                   valBatch, valCount, valCorrect, testAcc, grads, steps,
                   batchOps, writer, checkpoint, saves, valHistory>>
    /\ UNCHANGED <<qvars, evars>>

\* lines 63-67: the next batch of train_dataloader, or lines 101-105 after it
ForBatch ==
    /\ tpc = "for_batch"
    /\ IF batch < nTrainBatches
         THEN /\ batch' = batch + 1
              /\ batchOps' = <<>>
              /\ tpc' = "zero_grad"
              /\ UNCHANGED <<valBatch, valCount, valCorrect>>
         ELSE /\ valBatch' = 0
              /\ valCount' = 0
              /\ valCorrect' = 0
              /\ tpc' = "for_val_batch"
              /\ UNCHANGED <<batch, batchOps>>
    /\ UNCHANGED <<epochs, nTrainBatches, nValBatches, save_model_dir, acc,
                   epoch, running_loss, train_preds, testAcc, grads, steps,
                   writer, checkpoint, saves, valHistory, visited>>
    /\ UNCHANGED <<qvars, evars>>

\* line 68
ZeroGrad ==
    /\ tpc = "zero_grad"
    /\ grads' = "zero"
    /\ batchOps' = Append(batchOps, "zero_grad")
    /\ tpc' = "forward"
    /\ UNCHANGED <<epochs, nTrainBatches, nValBatches, save_model_dir, acc,
                   epoch, batch, valBatch, running_loss, train_preds, valCount,
                   valCorrect, testAcc, steps, writer, checkpoint, saves,
                   valHistory, visited>>
    /\ UNCHANGED <<qvars, evars>>

\* lines 70-87: the forward pass and the loss handed to the writer
Forward ==
    /\ tpc = "forward"
    /\ batchOps' = Append(batchOps, "forward")
    /\ writer' = Append(writer, <<"Loss/train", epoch>>)
    /\ tpc' = "extend_preds"
    /\ UNCHANGED <<epochs, nTrainBatches, nValBatches, save_model_dir, acc,
                   epoch, batch, valBatch, running_loss, train_preds, valCount,
                   valCorrect, testAcc, grads, steps, checkpoint, saves,
                   valHistory, visited>>
    /\ UNCHANGED <<qvars, evars>>

\* predictions accumulated, the clipping left out
ExtendPreds_NoClip ==
    /\ tpc = "extend_preds"
    /\ train_preds' = train_preds + 1
    /\ batchOps' = Append(batchOps, "extend_preds")
    /\ tpc' = "backward"
    /\ UNCHANGED <<epochs, nTrainBatches, nValBatches, save_model_dir, acc,
                   epoch, batch, valBatch, running_loss, valCount, valCorrect,
                   testAcc, grads, steps, writer, checkpoint, saves,
                   valHistory, visited>>
    /\ UNCHANGED <<qvars, evars>>

\* lines 89-90
ExtendPreds ==
    /\ tpc = "extend_preds"
    /\ train_preds' = train_preds + 1
    /\ batchOps' = Append(batchOps, "extend_preds")
    /\ tpc' = "clip_grad_norm_"
    /\ UNCHANGED <<epochs, nTrainBatches, nValBatches, save_model_dir, acc,
                   epoch, batch, valBatch, running_loss, valCount, valCorrect,
                   testAcc, grads, steps, writer, checkpoint, saves,
                   valHistory, visited>>
    /\ UNCHANGED <<qvars, evars>>

\* lines 92-95: the gradients present are rescaled, none is computed
ClipGradNorm ==
    /\ tpc = "clip_grad_norm_"
    /\ batchOps' = Append(batchOps, "clip_grad_norm_")
    /\ tpc' = "backward"
    /\ UNCHANGED <<epochs, nTrainBatches, nValBatches, save_model_dir, acc,
                   epoch, batch, valBatch, running_loss, train_preds, valCount,
                   valCorrect, testAcc, grads, steps, writer, checkpoint,
                   saves, valHistory, visited>>
    /\ UNCHANGED <<qvars, evars>>

\* line 97
Backward ==
    /\ tpc = "backward"
    /\ grads' = "computed"
    /\ batchOps' = Append(batchOps, "backward")
    /\ tpc' = "optimizer.step"
    /\ UNCHANGED <<epochs, nTrainBatches, nValBatches, save_model_dir, acc,
                   epoch, batch, valBatch, running_loss, train_preds, valCount,
                   valCorrect, testAcc, steps, writer, checkpoint, saves,
                   valHistory, visited>>
    /\ UNCHANGED <<qvars, evars>>

\* line 98
OptimizerStep ==
    /\ tpc = "optimizer.step"
    /\ steps' = steps + 1
    /\ batchOps' = Append(batchOps, "optimizer.step")
    /\ tpc' = "running_loss"
    /\ UNCHANGED <<epochs, nTrainBatches, nValBatches, save_model_dir, acc,
                   epoch, batch, valBatch, running_loss, train_preds, valCount,
                   valCorrect, testAcc, grads, writer, checkpoint, saves,
                   valHistory, visited>>
    /\ UNCHANGED <<qvars, evars>>

\* line 100
AddRunningLoss ==
    /\ tpc = "running_loss"
    /\ running_loss' = running_loss + 1
    /\ batchOps' = Append(batchOps, "running_loss")
    /\ tpc' = "for_batch"
    /\ UNCHANGED <<epochs, nTrainBatches, nValBatches, save_model_dir, acc,
                   epoch, batch, valBatch, train_preds, valCount, valCorrect,
                   testAcc, grads, steps, writer, checkpoint, saves,
                   valHistory, visited>>
    /\ UNCHANGED <<qvars, evars>>

\* lines 106-117: one batch of val_dataloader, forward only; and lines
\* 119-135 once the loader is exhausted
ForValBatch ==
    /\ tpc = "for_val_batch"
    /\ IF valBatch < nValBatches
         THEN /\ \E c \in BatchCorrect :
                   /\ c <= ValBatchSize
                   /\ valCorrect' = valCorrect + c
              /\ valCount' = valCount + ValBatchSize
              /\ valBatch' = valBatch + 1
              /\ UNCHANGED <<tpc, testAcc, writer, valHistory>>
         ELSE /\ testAcc' = <<valCorrect, valCount>>
              /\ writer' = writer \o <<<<"Accuracy/train", epoch>>,
                                       <<"Accuracy/test", epoch>>>>
              /\ valHistory' = Append(valHistory, <<valCorrect, valCount>>)
              /\ tpc' = "checkpoint"
              /\ UNCHANGED <<valCorrect, valCount, valBatch>>
    /\ UNCHANGED <<epochs, nTrainBatches, nValBatches, save_model_dir, acc,
                   epoch, batch, running_loss, train_preds, grads, steps,
                   batchOps, checkpoint, saves, visited>>
    /\ UNCHANGED <<qvars, evars>>

\* a checkpoint policy that remembers the accuracy it saved
Checkpoint_TracksBest ==
    /\ tpc = "checkpoint"
    /\ IF Qualifies(testAcc, acc) /\ save_model_dir
         THEN /\ checkpoint' = [epoch |-> epoch, steps |-> steps]
              /\ saves' = Append(saves, epoch)
              /\ acc' = testAcc
         ELSE UNCHANGED <<checkpoint, saves, acc>>
    /\ tpc' = "for_epoch"
    /\ UNCHANGED <<epochs, nTrainBatches, nValBatches, save_model_dir,
                   epoch, batch, valBatch, running_loss, train_preds, valCount,
                   valCorrect, testAcc, grads, steps, batchOps, writer,
                   valHistory, visited>>
    /\ UNCHANGED <<qvars, evars>>

\* a checkpoint policy that stops the run at the first save
Checkpoint_EarlyStop ==
    /\ tpc = "checkpoint"
    /\ IF Qualifies(testAcc, acc) /\ save_model_dir
         THEN /\ checkpoint' = [epoch |-> epoch, steps |-> steps]
              /\ saves' = Append(saves, epoch)
              /\ tpc' = "close"
         ELSE /\ tpc' = "for_epoch"
              /\ UNCHANGED <<checkpoint, saves>>
    /\ UNCHANGED <<epochs, nTrainBatches, nValBatches, save_model_dir, acc,
                   epoch, batch, valBatch, running_loss, train_preds, valCount,
                   valCorrect, testAcc, grads, steps, batchOps, writer,
                   valHistory, visited>>
    /\ UNCHANGED <<qvars, evars>>

\* lines 137-145
Checkpoint ==
    /\ tpc = "checkpoint"
    /\ IF Qualifies(testAcc, acc) /\ save_model_dir
         THEN /\ checkpoint' = [epoch |-> epoch, steps |-> steps]
              /\ saves' = Append(saves, epoch)
         ELSE UNCHANGED <<checkpoint, saves>>
    /\ tpc' = "for_epoch"
    /\ UNCHANGED <<epochs, nTrainBatches, nValBatches, save_model_dir, acc,
                   epoch, batch, valBatch, running_loss, train_preds, valCount,
                   valCorrect, testAcc, grads, steps, batchOps, writer,
                   valHistory, visited>>
    /\ UNCHANGED <<qvars, evars>>

\* line 147
WriterClose ==
    /\ tpc = "close"
    /\ tpc' = "done"
    /\ UNCHANGED <<epochs, nTrainBatches, nValBatches, save_model_dir, acc,
                   epoch, batch, valBatch, running_loss, train_preds, valCount,
                   valCorrect, testAcc, grads, steps, batchOps, writer,
                   checkpoint, saves, valHistory, visited>>
    /\ UNCHANGED <<qvars, evars>>

NextT ==
    \/ ForEpoch
    \/ ForBatch
    \/ ZeroGrad
    \/ Forward
    \/ ExtendPreds
    \/ ClipGradNorm
    \/ Backward
    \/ OptimizerStep
    \/ AddRunningLoss
    \/ ForValBatch
    \/ Checkpoint
    \/ WriterClose

SpecT == InitT /\ [][NextT]_vars

\* train is one sequential thread: while a statement remains it is executed
FairSpecT == SpecT /\ WF_vars(NextT)

-----------------------------------------------------------------------------
(* Properties of run_quantize_inc.main *)

Called(name) == \E i \in 1..Len(calls) : calls[i] = name

Before(a, b) ==
    \E i, j \in 1..Len(calls) : i < j /\ calls[i] = a /\ calls[j] = b

\* C1: when flags.saved_model_dir does not exist, main logs one error and
\* returns normally; no library call is made (no tokenizer or model load, no
\* set_workspace, fit, save or copy) and output_dir is as it was.
C1_MissingModelDir ==
    (~savedExists /\ qpc # "validate") =>
        /\ qpc = "returned"
        /\ exception = "none"
        /\ logs = <<ModelNotFoundLog>>
        /\ calls = <<>>
        /\ outputDir = outputDir0

C1_Witness == ~savedExists /\ qpc = "returned" /\ Len(logs) = 1

\* C2: a FileNotFoundError raised inside the try block (by the preprocessing
\* collaborator or by the loader construction) is caught and logged and main
\* returns normally, with no model load, no quantization and output_dir as
\* it was; any other exception raised there leaves main uncaught.
C2_DataMissing ==
    /\ dataExc = "FileNotFoundError" =>
          /\ qpc = "returned"
          /\ exception = "none"
          /\ logs = <<DownloadDataLog, "FileNotFoundError">>
          /\ ~Called("AutoModelForSequenceClassification.from_pretrained")
          /\ ~Called("set_workspace")
          /\ ~Called("quantization.fit")
          /\ ~Called("save")
          /\ ~Called("shutil.copytree")
          /\ outputDir = outputDir0
    /\ dataExc \notin {"none", "FileNotFoundError"} =>
          /\ qpc = "raised"
          /\ exception = dataExc
          /\ logs = <<>>

C2_Witness ==
    /\ dataExc = "FileNotFoundError"
    /\ qpc = "returned"
    /\ Called("DataLoader")

SuccessfulRun == qpc = "returned" /\ Called("save")

\* C3: after every successful run output_dir holds the quantized weights,
\* every non-weight file of saved_model_dir, and not the float-precision
\* weights file of the source model.
C3_LoadableBundle ==
    SuccessfulRun =>
        /\ \E f \in outputDir : f[2] = "quantized_weights"
        /\ \A f \in savedModelDir : f[2] # "float_weights" => f \in outputDir
        /\ \A f \in savedModelDir : f[2] = "float_weights" => f \notin outputDir

\* C10: the copy comes only after the save and only if output_dir then holds
\* best_model.pt; without that file the copy is skipped with no error and no
\* log and output_dir stays as the save left it; a copy that runs brings
\* every file of saved_model_dir whose name does not match *.bin*, brings
\* none that matches, and removes nothing from output_dir.
C10_BestEffortCopy ==
    /\ Called("shutil.copytree") =>
          /\ Before("save", "shutil.copytree")
          /\ BestModelPt \in Names(savedSnapshot)
          /\ \A f \in savedModelDir : ~FnMatchBin(f[1]) => f \in outputDir
          /\ \A f \in savedModelDir :
                FnMatchBin(f[1]) => (f \notin outputDir \/ f \in savedSnapshot)
          /\ Names(savedSnapshot) \subseteq Names(outputDir)
          /\ \A g \in savedSnapshot :
                g[1] \notin Names(savedModelDir) => g \in outputDir
    /\ (SuccessfulRun /\ BestModelPt \notin Names(savedSnapshot)) =>
          /\ ~Called("shutil.copytree")
          /\ outputDir = savedSnapshot
          /\ logs = <<>>
          /\ exception = "none"

C10_Witness ==
    /\ SuccessfulRun
    /\ Called("shutil.copytree")
    /\ <<PytorchModelBin, "float_weights">> \in savedModelDir
    /\ <<VocabTxt, "vocab">> \in outputDir

-----------------------------------------------------------------------------
(* Properties of quantize_model.evaluate_accuracy *)

CeilDiv(a, b) == (a + b - 1) \div b

\* C7: an invocation of the eval_func iterates every batch of the loader
\* once; it starts from empty accumulators, so that while it runs they hold
\* one prediction and one label per sample served in this invocation, and at
\* its return B predictions and B labels, label k being that of the k-th
\* sample served; the value returned is the number of positions where
\* prediction and label agree over B, between 0 and 1.
C7_EvaluateAccuracy ==
    /\ epc = "loop" =>
          /\ Len(test_preds) = served
          /\ Len(test_labels) = served
    /\ (epc = "idle" /\ evalCount > 0) =>
          /\ batches = CeilDiv(Len(labels), batch_size)
          /\ Len(test_preds) = Len(labels)
          /\ Len(test_labels) = Len(labels)
          /\ \A k \in 1..Len(labels) : test_labels[k] = labels[order[k]]
          /\ accuracy[1] =
                Cardinality({k \in 1..Len(labels) : test_preds[k] = labels[order[k]]})
          /\ accuracy[2] = Len(labels)
          /\ 0 <= accuracy[1]
          /\ accuracy[1] <= accuracy[2]

C7_Witness ==
    /\ epc = "idle"
    /\ evalCount = 2
    /\ Len(labels) = 3
    /\ batch_size = 2
    /\ batches = 2
    /\ accuracy = <<2, 3>>

-----------------------------------------------------------------------------
(* Properties of utils.train.train *)

\* strictly between 0.80 and 0.95
InBand(t) == 100 * t[1] > 80 * t[2] /\ 100 * t[1] < 95 * t[2]

Count(seq, x) == Cardinality({i \in 1..Len(seq) : seq[i] = x})

\* the epochs whose checkpoint decision has been taken
Decided == IF tpc \in {"for_epoch", "close", "done"} THEN epoch ELSE epoch - 1

\* C4: the save step runs exactly once in an epoch whose validation accuracy
\* is strictly between 0.80 and 0.95 when a save directory is configured, and
\* not at all in any other epoch; the tracking variable acc keeps its initial
\* value 0, so earlier epochs have no part in the decision.
C4_SavePerInBandEpoch ==
    /\ acc = <<0, 1>>
    /\ \A e \in 1..epoch :
          Count(saves, e) =
             IF e <= Decided /\ InBand(valHistory[e]) /\ save_model_dir
               THEN 1 ELSE 0

C4_Witness ==
    /\ tpc = "done"
    /\ epochs = 2
    /\ Len(valHistory) = 2
    /\ valHistory[1] = <<18, 20>>
    /\ valHistory[2] = <<17, 20>>
    /\ saves = <<1, 2>>

\* C5: when train ends with a save directory configured and some epoch in
\* band, the checkpoint in the directory is the model as it was after an
\* epoch of highest in-band validation accuracy.
C5_BestCheckpoint ==
    (/\ tpc = "done"
     /\ save_model_dir
     /\ \E e \in 1..epochs : InBand(valHistory[e])) =>
        /\ checkpoint.epoch \in 1..epochs
        /\ checkpoint.steps = checkpoint.epoch * nTrainBatches
        /\ InBand(valHistory[checkpoint.epoch])
        /\ \A e \in 1..epochs :
              InBand(valHistory[e]) =>
                 ~Less(valHistory[checkpoint.epoch], valHistory[e])

IsLoss(entry) == entry[1] = "Loss/train"

IsAccuracy(entry) == entry[1] \in {"Accuracy/train", "Accuracy/test"}

\* C6: a run of N epochs leaves in the writer exactly N loss entries, one
\* per epoch, and N pairs (train accuracy, validation accuracy), keyed by
\* epoch index, in the order 1..N.
C6_MetricsPerEpoch ==
    tpc = "done" =>
        /\ SelectSeq(writer, IsLoss) = [e \in 1..epochs |-> <<"Loss/train", e>>]
        /\ SelectSeq(writer, IsAccuracy) =
              [i \in 1..(2 * epochs) |->
                  IF i % 2 = 1 THEN <<"Accuracy/train", (i + 1) \div 2>>
                               ELSE <<"Accuracy/test", i \div 2>>]

ValidationPositions == {"for_val_batch", "checkpoint"}

C8_Order ==
    /\ visited = [i \in 1..epoch |-> i]
    /\ epoch <= epochs
    /\ tpc \in {"close", "done"} =>
          /\ epoch = epochs
          /\ Len(valHistory) = epochs
          /\ steps = epochs * nTrainBatches
    /\ tpc \in ValidationPositions =>
          /\ batch = nTrainBatches
          /\ running_loss = nTrainBatches
          /\ train_preds = nTrainBatches
          /\ steps = epoch * nTrainBatches
    /\ tpc = "for_val_batch" => Len(valHistory) = epoch - 1
    /\ tpc = "checkpoint" =>
          /\ valBatch = nValBatches
          /\ valCount = nValBatches * ValBatchSize
          /\ Len(valHistory) = epoch
          /\ Count(saves, epoch) = 0
    /\ tpc = "for_epoch" =>
          /\ Len(valHistory) = epoch
          /\ steps = epoch * nTrainBatches

\* C8: train ends after entering the epochs 1..N in that order, each once;
\* in every epoch the whole train loader is passed before validation starts,
\* the whole validation loader before the checkpoint decision, no phase is
\* skipped, and the loop does not end before epoch N (a save does not end it).
C8_EpochsRunToCompletion == []C8_Order /\ <>(tpc = "done")

C8_Witness ==
    /\ tpc = "done"
    /\ epochs = 2
    /\ nTrainBatches = 2
    /\ nValBatches = 2
    /\ visited = <<1, 2>>
    /\ saves = <<1>>

\* the mutation step in the order the claim lists it
MutationOps ==
    <<"zero_grad", "forward", "extend_preds", "clip_grad_norm_", "backward",
      "optimizer.step", "running_loss">>

IsPrefix(s, t) == Len(s) <= Len(t) /\ SubSeq(t, 1, Len(s)) = s

BeforeStep ==
    {"zero_grad", "forward", "extend_preds", "clip_grad_norm_", "backward",
     "optimizer.step"}

\* C9: for every training batch the mutation step clears the gradients, runs
\* the forward pass, accumulates the predictions, clips the gradient norm,
\* runs the backward pass, steps the optimizer and adds the loss, in that
\* order; the clipping precedes the backward pass of the batch, whose
\* gradients the one optimizer step of the batch then applies.
C9_MutationStepOrder ==
    /\ IsPrefix(batchOps, MutationOps)
    /\ (tpc = "for_batch" /\ batch >= 1) => batchOps = MutationOps
    /\ tpc = "backward" => grads = "zero"
    /\ tpc = "optimizer.step" => grads = "computed"
    /\ steps = IF epoch = 0 THEN 0
               ELSE (epoch - 1) * nTrainBatches + batch
                       - (IF tpc \in BeforeStep THEN 1 ELSE 0)

C9_Witness ==
    /\ tpc = "for_batch"
    /\ epoch = 2
    /\ batch = 2
    /\ batchOps = MutationOps
    /\ steps = 4

=============================================================================
